---- MODULE Spec2Model ----
(***************************************************************************)
(* Toastmaster Toolbox presenter (src/Project_Final.py): the speech timer, *)
(* the severity band, the disfluency counter served by the Flask handlers  *)
(* and delivered to the window through the Qt signal bus, and the strided  *)
(* facial-expression pipeline with its hold window and emotion tally.      *)
(*                                                                         *)
(* Time is counted in tenths of a second; time.time() and time.monotonic() *)
(* are one clock, now, that never runs backwards.  None is the empty       *)
(* tuple, and an optional value v is the one-element tuple <<v>>.          *)
(* The window's handlers run on the single GUI thread, one at a time; the  *)
(* Flask handlers run on their own threads (threaded=True) and interleave  *)
(* with each other and with the GUI thread between accesses to the global  *)
(* counter.  Variables named h_... are history variables: the code does    *)
(* not hold them, they record what happened.  h_start_open: a start was    *)
(* called and no stop or reset since; h_stop: the time of the stop that    *)
(* ended the last session, and whether a tick ran later than it; h_ui_fresh*)
(* : _update_timing_ui ran after the last change of its inputs by another  *)
(* handler; h_since_reset: the POSTs received since the state was clean    *)
(* (-1 after a reset that ran with a handler in flight); h_fresh: the last *)
(* fresh detection and its time; h_cycle: what the detection of the last   *)
(* pipeline cycle did (skip: off the stride, raised: the detector failed,  *)
(* empty: no region kept, fresh: a region kept); h_noop: start_speech or   *)
(* stop_speech returned at its guard, and no tick, delivery, reset or      *)
(* effective start or stop has run since; h_diag: the wall-clock second of *)
(* the last "FER error" message and how many were shown in that second.    *)
(* The clock reads 0 at the start of an even wall-clock second.  h_after:  *)
(* the POST handlers in flight when reset_speech last ran (none before the *)
(* first reset) plus the POSTs received since; h_delivered: the calls of   *)
(* on_disfluency_from_api so far.  emotion_counts is the Counter read with  *)
(* its default 0, emotion_keys its keys in insertion order; text_report is *)
(* the content of the report box, None while it is empty.  h_tie: in the   *)
(* last answer of the detector, two or more regions with a box had the     *)
(* largest area.                                                           *)
(* The Ah-Counter client (src/Project_Final_Client.py) is one more GUI     *)
(* thread, blocked while a request of its own is under way: lbl_count is   *)
(* the count its label shows, None for the dash; client.pc says where it   *)
(* stands (idle, post: waiting for the answer to its POST, which is the    *)
(* request client.req, refresh: about to call refresh_count).  h_get: a    *)
(* bit that flips with each GET exchange the client ends, and what the     *)
(* last one carried (None: it failed); h_post: how the last                *)
(* send_disfluency went (none, pending, ok, failed).                       *)
(* The rate meter of _on_timer_frame (lines 373-381) reads and writes      *)
(* frame_times and the FPS label and nothing else, and nothing else reads  *)
(* them: it is the action fps_tick, by itself.  open_camera clears         *)
(* frame_times, which is still empty when it runs.  fps is the rate shown, *)
(* the fraction <<numerator, denominator>> per second, <<0, 1>> for 0.0;   *)
(* h_tick: a bit that flips with each run of the meter; h_evicted: an      *)
(* append has pushed a timestamp out of frame_times.                       *)
(***************************************************************************)
EXTENDS Integers, Sequences, FiniteSets, TLC

\* ------------------------------------------------------------------ bounds
\* The clock stops at MaxTime under Spec, MaxTimeS under SpecSession,
\* MaxTimeT under SpecTiming, MaxTimeF under SpecFer, MaxTimeP under
\* SpecFerSession, MaxTimeB under SpecBand, MaxTimeR under SpecReport and
\* MaxTimeE under SpecFerReport, MaxTimeQ under SpecFps, MaxTimeD under
\* SpecTimeline.
MaxTime == 1
MaxTimeS == 2
MaxTimeT == 13
MaxTimeF == 9
MaxTimeP == 1
MaxTimeB == 1
MaxTimeQ == 1
MaxTimeD == 2
MaxTimeR == 2
MaxTimeE == 7
\* POST /disfluency requests received in one run, under Spec, under
\* SpecSession, under SpecLive, under SpecBand and under SpecClient.
MaxPosts == 2
MaxPostsS == 1
MaxPostsL == 1
MaxPostsB == 1
MaxPostsC == 1
\* Frame cycles that reach the expression pipeline in one run.
MaxFrames == 7
\* The same under SpecPresenter.
MaxFramesA == 3

\* ------------------------------------------------------- program constants
_fer_stride == 3
_down_w == 480
\* 0.7 s, the hold window of the stabilizer.
HOLD_WINDOW == 7
\* deque(maxlen=60), the timestamps the rate meter holds.
frame_times_maxlen == 60

None == <<>>

GREEN == "#4caf50"
YELLOW == "#ffc107"
RED == "#f44336"

VARIABLES
    now,
    cap, fer_enabled, detector,
    _fer_i, _last_box, _last_seen,
    emotion_counts, emotion_keys, emotion_samples_total,
    results,
    text_report,
    speech_running, speech_start_monotonic, speech_elapsed_sec,
    disfluency_count, disfluency_times,
    spin_minutes, spin_seconds, spin_warn1, spin_warn2,
    frac, color,
    _DISFLUENCY_COUNT, posts, received, queue, response,
    h_start_open, h_stop, h_ui_fresh, h_since_reset, h_fresh, h_cycle,
    h_noop, h_diag, h_after, h_delivered, h_tie,
    lbl_count, client, h_get, h_post,
    frame_times, fps, h_tick, h_evicted

ferVars == <<_fer_i, _last_box, _last_seen, emotion_counts, emotion_keys,
             emotion_samples_total, results, h_fresh, h_cycle, h_diag,
             h_tie>>
speechVars == <<speech_running, speech_start_monotonic, speech_elapsed_sec>>
spinVars == <<spin_minutes, spin_seconds, spin_warn1, spin_warn2>>
uiVars == <<frac, color, h_ui_fresh>>
ledgerVars == <<disfluency_count, disfluency_times>>
serverVars == <<_DISFLUENCY_COUNT, posts, received, queue, response,
               h_since_reset, h_after, h_delivered>>
deviceVars == <<cap, fer_enabled, detector>>
clientVars == <<lbl_count, client, h_get, h_post>>
meterVars == <<frame_times, fps, h_tick, h_evicted>>

vars == <<now, text_report, clientVars, meterVars, deviceVars, ferVars, speechVars, ledgerVars, spinVars, uiVars,
          serverVars, h_start_open, h_stop, h_noop>>

\* ------------------------------------------------------------ input sets
Labels == {"happy", "sad"}

\* A label-score mapping is the sequence of its items in iteration order;
\* scores are in hundredths.
EmotionMaps ==
    { <<>>,
      << <<"happy", 90>>, <<"sad", 10>> >>,
      << <<"sad", 50>>, <<"happy", 50>> >> }

\* Regions as the detector returns them, in the downscaled image.
Boxes == { <<40, 20, 100, 60>>, <<10, 10, 60, 100>>, <<0, 0, 30, 30>> }

Detections ==
    [box : {<<b>> : b \in Boxes}, emotions : EmotionMaps]
        \cup [box : {None}, emotions : {<< <<"happy", 90>>, <<"sad", 10>> >>}]

\* What one call of detect_emotions does: it raises, or returns a list.
DetectorOutputs ==
    { [raised |-> TRUE, raw |-> <<>>], [raised |-> FALSE, raw |-> <<>>] }
        \cup { [raised |-> FALSE, raw |-> <<d>>] : d \in Detections }
        \cup { [raised |-> FALSE, raw |-> <<d, e>>] :
                 d \in {x \in Detections : x.emotions = <<>>},
                 e \in {x \in Detections : x.box # None /\ x.emotions # <<>>} }

FrameWidths == {1920, 1280}

MinuteValues == {0, 5}
SecondValues == {0, 1}
Warn1Values == {75, 100}
Warn2Values == {0, 90}

PostIds == 1 .. MaxPosts

\* --------------------------------------------------------------- Init
\* The window after __init__, and the Ah-Counter client at the last line of
\* its own, about to call refresh_count.
InitWindow ==
    /\ now = 0
    /\ cap = None
    /\ fer_enabled = TRUE
    /\ _fer_i = 0
    /\ _last_box = None
    /\ _last_seen = 0
    /\ emotion_counts = [l \in Labels |-> 0]
    /\ emotion_keys = <<>>
    /\ emotion_samples_total = 0
    /\ text_report = None
    /\ results = <<>>
    /\ speech_running = FALSE
    /\ speech_start_monotonic = None
    /\ speech_elapsed_sec = 0
    /\ disfluency_count = 0
    /\ disfluency_times = <<>>
    /\ spin_minutes = 5
    /\ spin_seconds = 0
    /\ spin_warn1 = 75
    /\ spin_warn2 = 90
    /\ frac = <<0, 1>>
    /\ color = GREEN
    /\ h_start_open = FALSE
    /\ h_stop = None
    /\ h_ui_fresh = FALSE
    /\ h_fresh = None
    /\ h_cycle = "none"
    /\ h_noop = FALSE
    /\ h_diag = None
    /\ h_tie = FALSE
    /\ frame_times = <<>>
    /\ fps = <<0, 1>>
    /\ h_tick = 0
    /\ h_evicted = FALSE
    /\ lbl_count = None
    /\ client = [pc |-> "refresh", req |-> 0]
    /\ h_get = <<0, None>>
    /\ h_post = "none"

\* The server before its first request.
InitServer ==
    /\ _DISFLUENCY_COUNT = 0
    /\ posts = [r \in PostIds |-> [pc |-> "idle", reg |-> 0, inc |-> 0]]
    /\ response = None
    /\ received = 0
    /\ queue = <<>>
    /\ h_since_reset = 0
    /\ h_after = 0
    /\ h_delivered = 0

InitCommon == InitWindow /\ InitServer

\* The server after one POST /disfluency was handled to its end, with the
\* call it emitted still queued to the GUI thread.
InitServerOnePost ==
    /\ _DISFLUENCY_COUNT = 1
    /\ posts = [r \in PostIds |->
                  [pc |-> IF r = 1 THEN "done" ELSE "idle", reg |-> 0, inc |-> 0]]
    /\ response = <<1, 1>>
    /\ received = 1
    /\ queue = <<1>>
    /\ h_since_reset = 1
    /\ h_after = 1
    /\ h_delivered = 0

\* The server after two POST /disfluency were handled to their ends one
\* after the other, with both calls they emitted still queued.
InitServerTwoPosts ==
    /\ _DISFLUENCY_COUNT = 2
    /\ posts = [r \in PostIds |->
                  [pc |-> IF r <= 2 THEN "done" ELSE "idle", reg |-> 0, inc |-> 0]]
    /\ response = <<2, 2>>
    /\ received = 2
    /\ queue = <<1, 2>>
    /\ h_since_reset = 2
    /\ h_after = 2
    /\ h_delivered = 0

\* The fer library is missing or FER() raised: detector stays None.
Init == InitCommon /\ detector = None

\* FER(mtcnn=False) succeeded.
InitFer == InitCommon /\ detector = <<"FER">>

\* FER(mtcnn=False) succeeded and one POST /disfluency has been handled.
InitPresenter == InitWindow /\ InitServerOnePost /\ detector = <<"FER">>

\* No detector, and two POST /disfluency have been handled.
InitTimeline == InitWindow /\ InitServerTwoPosts /\ detector = None

\* ------------------------------------------------------------- timing
\* _target_seconds, in tenths of a second.
TargetSeconds == (spin_minutes * 60 + spin_seconds) * 10

\* frac = max(0.0, min(1.2, elapsed / target)) if target > 0 else 0.0,
\* as the exact fraction <<numerator, denominator>>.
\* The same with the upper clamp at 1.0 instead of 1.2.
FracOf_clamp_at_one(elapsed, target) ==
    IF target > 0
    THEN LET lo == IF elapsed > target THEN <<1, 1>> ELSE <<elapsed, target>>
         IN  IF lo[1] < 0 THEN <<0, 1>> ELSE lo
    ELSE <<0, 1>>

FracOf(elapsed, target) ==
    IF target > 0
    THEN LET lo == IF 5 * elapsed > 6 * target THEN <<6, 5>> ELSE <<elapsed, target>>
         IN  IF lo[1] < 0 THEN <<0, 1>> ELSE lo
    ELSE <<0, 1>>

\* fr >= warn / 100.0
FracAtLeast(fr, warn) == fr[1] * 100 >= warn * fr[2]

\* The band turned high as soon as a disfluency has been counted.
ColorOf_counts_disfluencies(fr, warn1, warn2) ==
    IF disfluency_count > 0 \/ FracAtLeast(fr, warn2) THEN RED
    ELSE IF FracAtLeast(fr, warn1) THEN YELLOW
    ELSE GREEN

\* The same with the two thresholds tested in the other order.
ColorOf_warn1_first(fr, warn1, warn2) ==
    IF FracAtLeast(fr, warn1) THEN YELLOW
    ELSE IF FracAtLeast(fr, warn2) THEN RED
    ELSE GREEN

ColorOf(fr, warn1, warn2) ==
    IF FracAtLeast(fr, warn2) THEN RED
    ELSE IF FracAtLeast(fr, warn1) THEN YELLOW
    ELSE GREEN

\* _update_timing_ui, called with the timing fields as the caller has just
\* set them.
\* _update_timing_ui adding the running time to the stored elapsed time.
UpdateTimingUi_accumulates(running, start, elapsed) ==
    /\ speech_elapsed_sec' =
          IF running /\ start # None THEN elapsed + (now - start[1]) ELSE elapsed
    /\ frac' = FracOf(speech_elapsed_sec', TargetSeconds)
    /\ color' = ColorOf(frac', spin_warn1, spin_warn2)
    /\ h_ui_fresh' = TRUE

\* _update_timing_ui testing only the start instant, not speech_running.
UpdateTimingUi_ignores_running(running, start, elapsed) ==
    /\ speech_elapsed_sec' =
          IF start # None THEN now - start[1] ELSE elapsed
    /\ frac' = FracOf(speech_elapsed_sec', TargetSeconds)
    /\ color' = ColorOf(frac', spin_warn1, spin_warn2)
    /\ h_ui_fresh' = TRUE

UpdateTimingUi(running, start, elapsed) ==
    /\ speech_elapsed_sec' =
          IF running /\ start # None THEN now - start[1] ELSE elapsed
    /\ frac' = FracOf(speech_elapsed_sec', TargetSeconds)
    /\ color' = ColorOf(frac', spin_warn1, spin_warn2)
    /\ h_ui_fresh' = TRUE

\* start_speech zeroing the window's count as reset_speech does.
start_speech_clears_count ==
    /\ h_start_open' = TRUE
    /\ h_noop' = speech_running
    /\ IF speech_running
       THEN UNCHANGED <<speechVars, ledgerVars, uiVars, h_stop>>
       ELSE /\ speech_running' = TRUE
            /\ h_stop' = None
            /\ speech_start_monotonic' = <<now>>
            /\ speech_elapsed_sec' = 0
            /\ disfluency_times' = <<>>
            /\ disfluency_count' = 0
            /\ h_ui_fresh' = FALSE
            /\ UNCHANGED <<frac, color>>
    /\ UNCHANGED <<now, text_report, meterVars, clientVars, deviceVars, ferVars, spinVars, serverVars>>

\* start_speech that leaves the timeline of the session before.
start_speech_keeps_timeline ==
    /\ h_start_open' = TRUE
    /\ h_noop' = speech_running
    /\ IF speech_running
       THEN UNCHANGED <<speechVars, ledgerVars, uiVars, h_stop>>
       ELSE /\ speech_running' = TRUE
            /\ h_stop' = None
            /\ speech_start_monotonic' = <<now>>
            /\ speech_elapsed_sec' = 0
            /\ h_ui_fresh' = FALSE
            /\ UNCHANGED <<disfluency_times, disfluency_count, frac, color>>
    /\ UNCHANGED <<now, text_report, meterVars, clientVars, deviceVars, ferVars,
                   spinVars, serverVars>>

\* start_speech that leaves the elapsed time of the session before.
start_speech_keeps_elapsed ==
    /\ h_start_open' = TRUE
    /\ h_noop' = speech_running
    /\ IF speech_running
       THEN UNCHANGED <<speechVars, ledgerVars, uiVars, h_stop>>
       ELSE /\ speech_running' = TRUE
            /\ h_stop' = None
            /\ speech_start_monotonic' = <<now>>
            /\ disfluency_times' = <<>>
            /\ h_ui_fresh' = FALSE
            /\ UNCHANGED <<speech_elapsed_sec, disfluency_count, frac, color>>
    /\ UNCHANGED <<now, text_report, meterVars, clientVars, deviceVars, ferVars,
                   spinVars, serverVars>>

\* start_speech without its early return: a start while running starts over.
start_speech_no_guard ==
    /\ h_start_open' = TRUE
    /\ h_noop' = speech_running
    /\ speech_running' = TRUE
    /\ h_stop' = None
    /\ speech_start_monotonic' = <<now>>
    /\ speech_elapsed_sec' = 0
    /\ disfluency_times' = <<>>
    /\ h_ui_fresh' = FALSE
    /\ UNCHANGED <<disfluency_count, frac, color>>
    /\ UNCHANGED <<now, text_report, meterVars, clientVars, deviceVars, ferVars, spinVars, serverVars>>

start_speech ==
    /\ h_start_open' = TRUE
    /\ h_noop' = speech_running
    /\ IF speech_running
       THEN UNCHANGED <<speechVars, ledgerVars, uiVars, h_stop>>
       ELSE /\ speech_running' = TRUE
            /\ h_stop' = None
            /\ speech_start_monotonic' = <<now>>
            /\ speech_elapsed_sec' = 0
            /\ disfluency_times' = <<>>
            /\ h_ui_fresh' = FALSE
            /\ UNCHANGED <<disfluency_count, frac, color>>
    /\ UNCHANGED <<now, text_report, meterVars, clientVars, deviceVars, ferVars, spinVars, serverVars>>

\* stop_speech with its early return inverted.
stop_speech_inverted_guard ==
    /\ h_start_open' = FALSE
    /\ h_noop' = ~speech_running
    /\ IF speech_running
       THEN UNCHANGED <<speechVars, uiVars, h_stop>>
       ELSE /\ speech_running' = FALSE
            /\ h_stop' = <<now, FALSE>>
            /\ UpdateTimingUi(FALSE, speech_start_monotonic,
                              IF speech_start_monotonic # None
                              THEN now - speech_start_monotonic[1]
                              ELSE speech_elapsed_sec)
            /\ UNCHANGED speech_start_monotonic
    /\ UNCHANGED <<now, text_report, meterVars, clientVars, deviceVars, ferVars, ledgerVars, spinVars, serverVars>>

stop_speech ==
    /\ h_start_open' = FALSE
    /\ h_noop' = ~speech_running
    /\ IF ~speech_running
       THEN UNCHANGED <<speechVars, uiVars, h_stop>>
       ELSE /\ speech_running' = FALSE
            /\ h_stop' = <<now, FALSE>>
            /\ UpdateTimingUi(FALSE, speech_start_monotonic,
                              IF speech_start_monotonic # None
                              THEN now - speech_start_monotonic[1]
                              ELSE speech_elapsed_sec)
            /\ UNCHANGED speech_start_monotonic
    /\ UNCHANGED <<now, text_report, meterVars, clientVars, deviceVars, ferVars, ledgerVars, spinVars, serverVars>>

\* reset_speech without its global statement: the assignment of line 498
\* makes a local name and the server's counter is left as it is.
reset_speech_local_count ==
    /\ h_start_open' = FALSE
    /\ h_noop' = FALSE
    /\ h_stop' = None
    /\ speech_running' = FALSE
    /\ speech_start_monotonic' = None
    /\ disfluency_times' = <<>>
    /\ disfluency_count' = 0
    /\ UpdateTimingUi(FALSE, None, 0)
    /\ UNCHANGED <<now, text_report, meterVars, clientVars, deviceVars, ferVars, spinVars, serverVars>>

\* reset_speech without line 492: the session is left running.
reset_speech_keeps_running ==
    /\ h_start_open' = FALSE
    /\ h_noop' = FALSE
    /\ h_stop' = None
    /\ UNCHANGED speech_running
    /\ speech_start_monotonic' = None
    /\ disfluency_times' = <<>>
    /\ disfluency_count' = 0
    /\ _DISFLUENCY_COUNT' = 0
    /\ UpdateTimingUi(speech_running, None, 0)
    /\ h_since_reset' =
          IF \A r \in PostIds : posts[r].pc \in {"idle", "done"} THEN 0 ELSE -1
    /\ h_after' =
          Cardinality({r \in PostIds : posts[r].pc \notin {"idle", "done"}})
    /\ UNCHANGED h_delivered
    /\ UNCHANGED <<now, text_report, meterVars, clientVars, deviceVars, ferVars, spinVars, posts, received, queue,
                   response>>

\* reset_speech that also clears the emotion tally.
reset_speech_clears_tally ==
    /\ h_start_open' = FALSE
    /\ h_noop' = FALSE
    /\ h_stop' = None
    /\ speech_running' = FALSE
    /\ speech_start_monotonic' = None
    /\ disfluency_times' = <<>>
    /\ disfluency_count' = 0
    /\ _DISFLUENCY_COUNT' = 0
    /\ emotion_counts' = [l \in Labels |-> 0]
    /\ emotion_keys' = <<>>
    /\ emotion_samples_total' = 0
    /\ UpdateTimingUi(FALSE, None, 0)
    /\ h_since_reset' =
          IF \A r \in PostIds : posts[r].pc \in {"idle", "done"} THEN 0 ELSE -1
    /\ h_after' =
          Cardinality({r \in PostIds : posts[r].pc \notin {"idle", "done"}})
    /\ UNCHANGED h_delivered
    /\ UNCHANGED <<now, text_report, meterVars, clientVars, deviceVars, _fer_i, _last_box, _last_seen,
                   results, h_fresh, h_cycle, h_diag, h_tie, spinVars, posts,
                   received, queue, response>>

reset_speech ==
    /\ h_start_open' = FALSE
    /\ h_noop' = FALSE
    /\ h_stop' = None
    /\ speech_running' = FALSE
    /\ speech_start_monotonic' = None
    /\ disfluency_times' = <<>>
    /\ disfluency_count' = 0
    /\ _DISFLUENCY_COUNT' = 0
    /\ UpdateTimingUi(FALSE, None, 0)
    /\ h_since_reset' =
          IF \A r \in PostIds : posts[r].pc \in {"idle", "done"} THEN 0 ELSE -1
    /\ h_after' =
          Cardinality({r \in PostIds : posts[r].pc \notin {"idle", "done"}})
    /\ UNCHANGED h_delivered
    /\ UNCHANGED <<now, text_report, meterVars, clientVars, deviceVars, ferVars, spinVars, posts, received, queue,
                   response>>

\* The user turns one of the four spin boxes to another value.
SetSpinMinutes ==
    \E v \in MinuteValues \ {spin_minutes} :
        /\ spin_minutes' = v
        /\ h_ui_fresh' = FALSE
        /\ UNCHANGED <<now, text_report, meterVars, clientVars, deviceVars, ferVars, speechVars, ledgerVars,
                       spin_seconds, spin_warn1, spin_warn2, frac, color,
                       serverVars, h_start_open, h_stop, h_noop>>

SetSpinSeconds ==
    \E v \in SecondValues \ {spin_seconds} :
        /\ spin_seconds' = v
        /\ h_ui_fresh' = FALSE
        /\ UNCHANGED <<now, text_report, meterVars, clientVars, deviceVars, ferVars, speechVars, ledgerVars,
                       spin_minutes, spin_warn1, spin_warn2, frac, color,
                       serverVars, h_start_open, h_stop, h_noop>>

SetSpinWarn1 ==
    \E v \in Warn1Values \ {spin_warn1} :
        /\ spin_warn1' = v
        /\ h_ui_fresh' = FALSE
        /\ UNCHANGED <<now, text_report, meterVars, clientVars, deviceVars, ferVars, speechVars, ledgerVars,
                       spin_minutes, spin_seconds, spin_warn2, frac, color,
                       serverVars, h_start_open, h_stop, h_noop>>

SetSpinWarn2 ==
    \E v \in Warn2Values \ {spin_warn2} :
        /\ spin_warn2' = v
        /\ h_ui_fresh' = FALSE
        /\ UNCHANGED <<now, text_report, meterVars, clientVars, deviceVars, ferVars, speechVars, ledgerVars,
                       spin_minutes, spin_seconds, spin_warn1, frac, color,
                       serverVars, h_start_open, h_stop, h_noop>>

\* ------------------------------------------------- disfluencies from the API
\* The delivery with the test of line 545 reduced to the start instant,
\* which a stopped session still has.
on_disfluency_from_api_ignores_running ==
    /\ queue # <<>>
    /\ disfluency_count' = Head(queue)
    /\ disfluency_times' =
          IF speech_start_monotonic # None
          THEN Append(disfluency_times, now - speech_start_monotonic[1])
          ELSE disfluency_times
    /\ queue' = Tail(queue)
    /\ h_noop' = FALSE
    /\ h_delivered' = h_delivered + 1
    /\ UNCHANGED <<now, text_report, meterVars, clientVars, deviceVars, ferVars, speechVars, spinVars, uiVars,
                   _DISFLUENCY_COUNT, posts, received, response,
                   h_since_reset, h_after, h_start_open, h_stop>>

\* The queued delivery of one disfluencyChanged(count) to the window.
on_disfluency_from_api ==
    /\ queue # <<>>
    /\ disfluency_count' = Head(queue)
    /\ disfluency_times' =
          IF speech_running /\ speech_start_monotonic # None
          THEN Append(disfluency_times, now - speech_start_monotonic[1])
          ELSE disfluency_times
    /\ queue' = Tail(queue)
    /\ h_noop' = FALSE
    /\ h_delivered' = h_delivered + 1
    /\ UNCHANGED <<now, text_report, meterVars, clientVars, deviceVars, ferVars, speechVars, spinVars, uiVars,
                   _DISFLUENCY_COUNT, posts, received, response,
                   h_since_reset, h_after, h_start_open, h_stop>>

\* add_disfluency on the thread of request r, one access to the global
\* counter at a time.  Requests are numbered in the order they arrive.
\* In posts[r], pc is the position of the thread, reg the value it has read
\* and not used yet, and inc the value its own increment stored (kept, for
\* the record, until the request is answered).
\* Line 53, the read of _DISFLUENCY_COUNT += 1.
add_disfluency_load(r, limit) ==
    /\ posts[r].pc = "idle"
    /\ r = received + 1
    /\ r <= limit
    /\ received' = r
    /\ h_since_reset' = IF h_since_reset >= 0 THEN h_since_reset + 1 ELSE -1
    /\ h_after' = h_after + 1
    /\ posts' = [posts EXCEPT ![r] = [pc |-> "store", reg |-> _DISFLUENCY_COUNT,
                                       inc |-> 0]]
    /\ UNCHANGED <<now, text_report, meterVars, deviceVars, ferVars, speechVars, ledgerVars, spinVars,
                   uiVars, _DISFLUENCY_COUNT, queue, response, h_delivered,
                   h_start_open, h_stop, h_noop>>

\* Line 53, the write of _DISFLUENCY_COUNT += 1.
add_disfluency_store(r) ==
    /\ posts[r].pc = "store"
    /\ _DISFLUENCY_COUNT' = posts[r].reg + 1
    /\ posts' = [posts EXCEPT ![r] = [pc |-> "arg", reg |-> 0,
                                       inc |-> posts[r].reg + 1]]
    /\ UNCHANGED <<now, text_report, meterVars, clientVars, deviceVars, ferVars, speechVars, ledgerVars, spinVars,
                   uiVars, received, queue, response, h_since_reset, h_after,
                   h_delivered, h_start_open, h_stop, h_noop>>

\* Line 54, the argument of emit is read.
add_disfluency_arg(r) ==
    /\ posts[r].pc = "arg"
    /\ posts' = [posts EXCEPT ![r] = [pc |-> "emit", reg |-> _DISFLUENCY_COUNT,
                                       inc |-> posts[r].inc]]
    /\ UNCHANGED <<now, text_report, meterVars, clientVars, deviceVars, ferVars, speechVars, ledgerVars, spinVars,
                   uiVars, _DISFLUENCY_COUNT, received, queue, response,
                   h_since_reset, h_after, h_delivered, h_start_open, h_stop,
                   h_noop>>

\* Line 54 with the signal emitted before any slot is connected to it: the
\* call reaches no one.
add_disfluency_emit_unconnected(r) ==
    /\ posts[r].pc = "emit"
    /\ posts' = [posts EXCEPT ![r] = [pc |-> "return", reg |-> 0,
                                       inc |-> posts[r].inc]]
    /\ UNCHANGED <<now, text_report, meterVars, clientVars, deviceVars, ferVars, speechVars, ledgerVars, spinVars,
                   uiVars, _DISFLUENCY_COUNT, received, queue, response,
                   h_since_reset, h_after, h_delivered, h_start_open, h_stop,
                   h_noop>>

\* Line 54, the signal is emitted from the handler's thread: the slot lives
\* on the GUI thread, so the call is queued to its event loop.
add_disfluency_emit(r) ==
    /\ posts[r].pc = "emit"
    /\ queue' = Append(queue, posts[r].reg)
    /\ posts' = [posts EXCEPT ![r] = [pc |-> "return", reg |-> 0,
                                       inc |-> posts[r].inc]]
    /\ UNCHANGED <<now, text_report, meterVars, clientVars, deviceVars, ferVars, speechVars, ledgerVars, spinVars,
                   uiVars, _DISFLUENCY_COUNT, received, response,
                   h_since_reset, h_after, h_delivered, h_start_open, h_stop,
                   h_noop>>

\* Line 55, the response carries the counter as it is read now; response
\* is the last response sent, with the request it answers.
add_disfluency_return(r) ==
    /\ posts[r].pc = "return"
    /\ posts' = [posts EXCEPT ![r] = [pc |-> "done", reg |-> 0, inc |-> 0]]
    /\ response' = <<r, _DISFLUENCY_COUNT>>
    /\ UNCHANGED <<now, text_report, meterVars, clientVars, deviceVars, ferVars, speechVars, ledgerVars, spinVars,
                   uiVars, _DISFLUENCY_COUNT, received, queue,
                   h_since_reset, h_after, h_delivered, h_start_open, h_stop,
                   h_noop>>

add_disfluency(limit) ==
    \E r \in PostIds :
        \/ (add_disfluency_load(r, limit) /\ UNCHANGED clientVars)
        \/ add_disfluency_store(r)
        \/ add_disfluency_arg(r)
        \/ add_disfluency_emit(r)
        \/ add_disfluency_return(r)

\* ------------------------------------------------------ Ah-Counter client
\* GET /disfluency, lines 45-47: the count the response carries.
get_disfluency == _DISFLUENCY_COUNT

\* The same handler broadcasting the count it read, as add_disfluency does.
get_disfluency_serve_emits ==
    /\ queue' = Append(queue, _DISFLUENCY_COUNT)
    /\ UNCHANGED <<_DISFLUENCY_COUNT, posts, received, response, h_since_reset,
                   h_after, h_delivered>>

\* What running get_disfluency does to the server: it reads the global and
\* writes nothing, and emits no signal.
get_disfluency_serve == UNCHANGED serverVars

windowVars == <<now, text_report, meterVars, deviceVars, ferVars, speechVars, ledgerVars,
                spinVars, uiVars, h_start_open, h_stop, h_noop>>

\* refresh_count, client lines 151-169, called by the Refresh button, by
\* __init__ and by send_disfluency: the GET is answered and the label shows
\* the count of the answer, or it fails (no server, timeout, HTTP error)
\* and the label shows the dash.
refresh_count ==
    /\ client.pc \in {"idle", "refresh"}
    /\ \E answered \in BOOLEAN :
          LET got == IF answered THEN <<get_disfluency>> ELSE None
          IN  /\ lbl_count' = got
              /\ h_get' = <<1 - h_get[1], got>>
          /\ IF answered THEN get_disfluency_serve ELSE UNCHANGED serverVars
    /\ client' = [pc |-> "idle", req |-> 0]
    /\ UNCHANGED <<h_post, windowVars>>

\* send_disfluency, client lines 174-186, up to the POST: the request
\* reaches the server, which begins add_disfluency for it.
send_disfluency_post(limit) ==
    /\ client.pc = "idle"
    /\ \E r \in PostIds :
          /\ add_disfluency_load(r, limit)
          /\ client' = [pc |-> "post", req |-> r]
    /\ h_post' = "pending"
    /\ UNCHANGED <<lbl_count, h_get>>

\* The POST does not reach the server: requests raises, the except branch
\* shows the error in the status bar.
send_disfluency_unreachable ==
    /\ client.pc = "idle"
    /\ h_post' = "failed"
    /\ UNCHANGED <<lbl_count, client, h_get, windowVars, serverVars>>

\* The same with the count a successful POST would have led to shown at
\* once.
send_disfluency_timeout_assumes ==
    /\ client.pc = "post"
    /\ client' = [pc |-> "idle", req |-> 0]
    /\ h_post' = "failed"
    /\ lbl_count' = IF lbl_count = None THEN None ELSE <<lbl_count[1] + 1>>
    /\ UNCHANGED <<h_get, windowVars, serverVars>>

\* The answer to the POST does not come within 3 s, wherever the handler of
\* the server stands: requests raises, the except branch shows the error.
send_disfluency_timeout ==
    /\ client.pc = "post"
    /\ client' = [pc |-> "idle", req |-> 0]
    /\ h_post' = "failed"
    /\ UNCHANGED <<lbl_count, h_get, windowVars, serverVars>>

\* The answer to the POST arrives: send_disfluency goes on to
\* refresh_count.
send_disfluency_answered ==
    /\ client.pc = "post"
    /\ posts[client.req].pc = "done"
    /\ client' = [pc |-> "refresh", req |-> 0]
    /\ h_post' = "ok"
    /\ UNCHANGED <<lbl_count, h_get, windowVars, serverVars>>

send_disfluency(limit) ==
    \/ send_disfluency_post(limit)
    \/ send_disfluency_unreachable
    \/ send_disfluency_timeout
    \/ send_disfluency_answered

\* ------------------------------------------------------ camera and frames
\* open_camera, run by the single-shot timer of the constructor: cap holds
\* the opened device, or stays None when the webcam cannot be opened (the
\* frame timer is started only with the device open).
open_camera ==
    /\ cap = None
    /\ \E opened \in BOOLEAN : cap' = IF opened THEN <<"VideoCapture">> ELSE None
    /\ UNCHANGED <<now, text_report, meterVars, clientVars, fer_enabled, detector, ferVars, speechVars, ledgerVars,
                   spinVars, uiVars, serverVars, h_start_open, h_stop, h_noop>>

_on_fer_toggled ==
    /\ fer_enabled' = ~fer_enabled
    /\ UNCHANGED <<now, text_report, meterVars, clientVars, cap, detector, ferVars, speechVars, ledgerVars,
                   spinVars, uiVars, serverVars, h_start_open, h_stop, h_noop>>

\* The quotient rounded to the nearest integer instead of truncated.
Remap_rounds(v, w_img) == (2 * v * w_img + _down_w) \div (2 * _down_w)

\* int(v / scale) with scale = _down_w / float(w_img), for v >= 0.  For the
\* widths of FrameWidths scale is a binary fraction (0.25, 0.375) and the
\* division has no rounding error that reaches the integer part.
Remap(v, w_img) == (v * w_img) \div _down_w

\* Lines 403-413: the regions with a box, remapped to the native frame.
RECURSIVE Mapped(_, _)
Mapped(raw, w_img) ==
    IF raw = <<>> THEN <<>>
    ELSE LET r == Head(raw)
             rest == Mapped(Tail(raw), w_img)
         IN  IF r.box = None THEN rest
             ELSE <<[box |-> [k \in 1 .. 4 |-> Remap(r.box[1][k], w_img)],
                     emotions |-> r.emotions]>> \o rest

Area(rr) == rr.box[3] * rr.box[4]

\* The last of the items with the largest area.
Best_last_on_tie(mapped) ==
    mapped[CHOOSE i \in 1 .. Len(mapped) :
              /\ \A j \in 1 .. Len(mapped) : Area(mapped[j]) <= Area(mapped[i])
              /\ \A j \in (i + 1) .. Len(mapped) :
                    Area(mapped[j]) < Area(mapped[i])]

\* max(mapped, key=area): the first of the items with the largest area.
Best(mapped) ==
    mapped[CHOOSE i \in 1 .. Len(mapped) :
              /\ \A j \in 1 .. Len(mapped) : Area(mapped[j]) <= Area(mapped[i])
              /\ \A j \in 1 .. (i - 1) : Area(mapped[j]) < Area(mapped[i])]

\* The last label with the top score, as a maximum search that replaces
\* its candidate on >= would return.
TopLabel_last_on_tie(emotions) ==
    emotions[CHOOSE i \in 1 .. Len(emotions) :
                /\ \A j \in 1 .. Len(emotions) : emotions[j][2] <= emotions[i][2]
                /\ \A j \in (i + 1) .. Len(emotions) :
                      emotions[j][2] < emotions[i][2]][1]

\* max(emotions.items(), key=score)[0]: the first label with the top score.
TopLabel(emotions) ==
    emotions[CHOOSE i \in 1 .. Len(emotions) :
                /\ \A j \in 1 .. Len(emotions) : emotions[j][2] <= emotions[i][2]
                /\ \A j \in 1 .. (i - 1) : emotions[j][2] < emotions[i][2]][1]

\* The same with the hold window closed at its end: <= 0.7.
Surfaced_inclusive(mapped) ==
    IF mapped # <<>> THEN <<Best(mapped)>>
    ELSE IF _last_box # None /\ (now - _last_seen) <= HOLD_WINDOW THEN _last_box
    ELSE <<>>

\* Lines 415-422: what the stabilizer surfaces in this cycle.
Surfaced(mapped) ==
    IF mapped # <<>> THEN <<Best(mapped)>>
    ELSE IF _last_box # None /\ (now - _last_seen) < HOLD_WINDOW THEN _last_box
    ELSE <<>>

\* The keys of the Counter, in the order of their first count, after
\* emotion_counts[label] += 1.
KeysWith(label) ==
    IF \E i \in 1 .. Len(emotion_keys) : emotion_keys[i] = label
    THEN emotion_keys
    ELSE Append(emotion_keys, label)

\* The same with total-samples counted once per label of the mapping.
Tally_per_label(res) ==
    IF res # <<>> /\ res[1].emotions # <<>>
    THEN /\ emotion_counts' =
              [emotion_counts EXCEPT ![TopLabel(res[1].emotions)] = @ + 1]
         /\ emotion_keys' = KeysWith(TopLabel(res[1].emotions))
         /\ emotion_samples_total' = emotion_samples_total + Len(res[1].emotions)
    ELSE UNCHANGED <<emotion_counts, emotion_keys, emotion_samples_total>>

\* Lines 425-432: the tally of the surfaced results.
Tally(res) ==
    IF res # <<>> /\ res[1].emotions # <<>>
    THEN /\ emotion_counts' =
              [emotion_counts EXCEPT ![TopLabel(res[1].emotions)] = @ + 1]
         /\ emotion_keys' = KeysWith(TopLabel(res[1].emotions))
         /\ emotion_samples_total' = emotion_samples_total + 1
    ELSE UNCHANGED <<emotion_counts, emotion_keys, emotion_samples_total>>

\* int(time.time()), the wall-clock second.
WallSecond == now \div 10

\* Lines 434-436, the except branch: the message is shown when the
\* wall-clock second is even.
FerError ==
    h_diag' =
        IF WallSecond % 2 = 0
        THEN IF h_diag # None /\ h_diag[1] = WallSecond
             THEN <<WallSecond, h_diag[2] + 1>>
             ELSE <<WallSecond, 1>>
        ELSE h_diag

\* Lines 388-436 of _on_timer_frame, with what detect_emotions does when it
\* is called (out) and the width of the frame read.
FerRun(out, w_img) ==
    LET run_fer == ((_fer_i + 1) % _fer_stride) = 0
    IN  /\ _fer_i < MaxFrames
        /\ _fer_i' = _fer_i + 1
        /\ IF run_fer /\ out.raised
           THEN /\ results' = <<>>
                /\ h_cycle' = "raised"
                /\ FerError
                /\ UNCHANGED <<_last_box, _last_seen, emotion_counts,
                               emotion_keys, emotion_samples_total, h_fresh,
                               h_tie>>
           ELSE LET mapped == IF run_fer THEN Mapped(out.raw, w_img) ELSE <<>>
                IN  /\ results' = Surfaced(mapped)
                    /\ UNCHANGED h_diag
                    /\ h_tie' =
                          IF run_fer
                          THEN \E i, j \in 1 .. Len(mapped) :
                                  /\ i < j
                                  /\ Area(mapped[i]) = Area(mapped[j])
                                  /\ \A k \in 1 .. Len(mapped) :
                                        Area(mapped[k]) <= Area(mapped[i])
                          ELSE h_tie
                    /\ IF mapped # <<>>
                       THEN /\ _last_box' = <<Best(mapped)>>
                            /\ _last_seen' = now
                            /\ h_fresh' = <<Best(mapped), now>>
                            /\ h_cycle' = "fresh"
                       ELSE /\ h_cycle' = IF run_fer THEN "empty" ELSE "skip"
                            /\ UNCHANGED <<_last_box, _last_seen, h_fresh>>
                    /\ Tally(results')

\* Lines 384-436: the pipeline runs only when recognition is switched on
\* and a detector exists; detect_emotions is called, and has an outcome,
\* only on the stride.
FerStep ==
    IF fer_enabled /\ detector # None
    THEN IF ((_fer_i + 1) % _fer_stride) = 0
         THEN \E out \in DetectorOutputs, w_img \in FrameWidths :
                  FerRun(out, w_img)
         ELSE \E w_img \in FrameWidths :
                  FerRun([raised |-> FALSE, raw |-> <<>>], w_img)
    ELSE /\ results' = <<>>
         /\ UNCHANGED <<_fer_i, _last_box, _last_seen, emotion_counts,
                        emotion_keys, emotion_samples_total, h_fresh, h_cycle,
                        h_diag, h_tie>>

\* _on_timer_frame without its except branch: the failure of the detector
\* leaves the handler before the timing tick.
FrameTick_raise_propagates ==
    /\ cap # None
    /\ FerStep
    /\ IF _fer_i' # _fer_i /\ h_cycle' = "raised"
       THEN UNCHANGED <<speech_elapsed_sec, uiVars>>
       ELSE UpdateTimingUi(speech_running, speech_start_monotonic,
                           speech_elapsed_sec)
    /\ h_stop' = IF h_stop # None /\ now > h_stop[1]
                 THEN <<h_stop[1], TRUE>> ELSE h_stop
    /\ h_noop' = FALSE
    /\ UNCHANGED <<now, text_report, meterVars, clientVars, deviceVars, speech_running, speech_start_monotonic,
                   ledgerVars, spinVars, serverVars, h_start_open>>

\* _on_timer_frame with a frame read from the camera: expression pipeline,
\* then the timing tick.
FrameTick ==
    /\ cap # None
    /\ FerStep
    /\ UpdateTimingUi(speech_running, speech_start_monotonic, speech_elapsed_sec)
    /\ h_stop' = IF h_stop # None /\ now > h_stop[1]
                 THEN <<h_stop[1], TRUE>> ELSE h_stop
    /\ h_noop' = FALSE
    /\ UNCHANGED <<now, text_report, meterVars, clientVars, deviceVars, speech_running, speech_start_monotonic,
                   ledgerVars, spinVars, serverVars, h_start_open>>

\* _on_timer_frame when cap.read() fails: it returns at line 368.
FrameReadFailed ==
    /\ cap # None
    /\ UNCHANGED vars

_on_timer_frame == FrameTick \/ FrameReadFailed

\* ---------------------------------------------------------------- report
\* f"{x:.1f}" for x = num / den >= 0: the number of tenths nearest to x.
\* A value halfway between two tenths does not arise: a time is a whole
\* number of tenths, and a percentage 100 * cnt / total lies halfway only
\* when total is a multiple of 16.
Fmt1(num, den) == (20 * num + den) \div (2 * den)

\* Lines 561-565: the timing line of the report, with diff in tenths.
TimingResult(actual, target) ==
    LET diff == actual - target
    IN  IF diff > 0
        THEN <<"Over time by", Fmt1(diff, 10)>>
        ELSE <<"Under time by", Fmt1(-diff, 10)>>

\* Counter.most_common(): the keys by descending count, keys of equal count
\* in insertion order.
RECURSIVE MostCommon(_, _)
MostCommon(counts, keys) ==
    IF keys = <<>> THEN <<>>
    ELSE LET i == CHOOSE k \in 1 .. Len(keys) :
                     /\ \A j \in 1 .. Len(keys) :
                           counts[keys[j]] <= counts[keys[k]]
                     /\ \A j \in 1 .. (k - 1) :
                           counts[keys[j]] < counts[keys[k]]
             rest == [j \in 1 .. (Len(keys) - 1) |->
                        IF j < i THEN keys[j] ELSE keys[j + 1]]
         IN  <<keys[i]>> \o MostCommon(counts, rest)

\* The same with the keys in insertion order.
EmoSummary_insertion_order ==
    IF emotion_samples_total > 0
    THEN LET order == emotion_keys
         IN  [i \in 1 .. Len(order) |->
                <<order[i], emotion_counts[order[i]],
                  Fmt1(100 * emotion_counts[order[i]], emotion_samples_total)>>]
    ELSE << <<"No emotion samples collected.">> >>

\* Lines 572-580: one line per key with its count and its percentage of
\* total_samples, or the line that says that no sample was collected.
EmoSummary ==
    IF emotion_samples_total > 0
    THEN LET order == MostCommon(emotion_counts, emotion_keys)
         IN  [i \in 1 .. Len(order) |->
                <<order[i], emotion_counts[order[i]],
                  Fmt1(100 * emotion_counts[order[i]], emotion_samples_total)>>]
    ELSE << <<"No emotion samples collected.">> >>

\* generate_report that takes the elapsed time of the last tick also while
\* the session runs.
generate_report_stale_elapsed ==
    LET target == TargetSeconds
        actual == speech_elapsed_sec
    IN  /\ text_report' =
              <<[target |-> Fmt1(target, 10),
                 actual |-> Fmt1(actual, 10),
                 timing_result |-> TimingResult(actual, target),
                 total_disfluencies |-> disfluency_count,
                 times |-> [i \in 1 .. Len(disfluency_times) |->
                              Fmt1(disfluency_times[i], 10)],
                 emo_summary |-> EmoSummary]>>
        /\ UNCHANGED <<now, clientVars, meterVars, deviceVars, ferVars,
                       speechVars,
                       ledgerVars,
                       spinVars, uiVars, serverVars, h_start_open, h_stop,
                       h_noop>>

\* generate_report, lines 555-593.
generate_report ==
    LET target == TargetSeconds
        actual == IF speech_running /\ speech_start_monotonic # None
                  THEN now - speech_start_monotonic[1]
                  ELSE speech_elapsed_sec
    IN  /\ text_report' =
              <<[target |-> Fmt1(target, 10),
                 actual |-> Fmt1(actual, 10),
                 timing_result |-> TimingResult(actual, target),
                 total_disfluencies |-> disfluency_count,
                 times |-> [i \in 1 .. Len(disfluency_times) |->
                              Fmt1(disfluency_times[i], 10)],
                 emo_summary |-> EmoSummary]>>
        /\ UNCHANGED <<now, clientVars, meterVars, deviceVars, ferVars,
                       speechVars,
                       ledgerVars,
                       spinVars, uiVars, serverVars, h_start_open, h_stop,
                       h_noop>>

\* ------------------------------------------------------------ rate meter
\* deque.append with maxlen: a full deque drops its oldest item.
DequeAppend(q, x) ==
    IF Len(q) = frame_times_maxlen THEN Append(Tail(q), x) ELSE Append(q, x)

\* The rate with every held timestamp counted as an interval.
FpsOf_counts_all(q) ==
    IF Len(q) >= 2 /\ q[Len(q)] - q[1] > 0
    THEN <<10 * Len(q), q[Len(q)] - q[1]>>
    ELSE <<0, 1>>

\* Lines 376-380: (len - 1) / dt per second, dt being in tenths here.
FpsOf(q) ==
    IF Len(q) >= 2 /\ q[Len(q)] - q[1] > 0
    THEN <<10 * (Len(q) - 1), q[Len(q)] - q[1]>>
    ELSE <<0, 1>>

\* Lines 373-381 of _on_timer_frame, with a frame read from the camera.
fps_tick ==
    /\ cap # None
    /\ frame_times' = DequeAppend(frame_times, now)
    /\ fps' = FpsOf(frame_times')
    /\ h_tick' = 1 - h_tick
    /\ h_evicted' = (h_evicted \/ Len(frame_times) = frame_times_maxlen)
    /\ UNCHANGED <<now, text_report, clientVars, deviceVars, ferVars,
                   speechVars, ledgerVars, spinVars, uiVars, serverVars,
                   h_start_open, h_stop, h_noop>>

\* ------------------------------------------------------------------ time
Advance(limit) ==
    /\ now < limit
    /\ now' = now + 1
    /\ UNCHANGED <<text_report, clientVars, meterVars, deviceVars, ferVars, speechVars, ledgerVars, spinVars,
                   uiVars, serverVars, h_start_open, h_stop, h_noop>>

AdvanceTime == Advance(MaxTime)
AdvanceTimeS == Advance(MaxTimeS)
AdvanceTimeT == Advance(MaxTimeT)
AdvanceTimeF == Advance(MaxTimeF)
AdvanceTimeP == Advance(MaxTimeP)
AdvanceTimeB == Advance(MaxTimeB)
AdvanceTimeQ == Advance(MaxTimeQ)
AdvanceTimeD == Advance(MaxTimeD)
AdvanceTimeR == Advance(MaxTimeR)
AdvanceTimeE == Advance(MaxTimeE)

\* -------------------------------------------------------- specifications
\* The disfluency counter, its handlers and the speech session.
Next ==
    \/ open_camera
    \/ _on_timer_frame
    \/ start_speech
    \/ stop_speech
    \/ reset_speech
    \/ on_disfluency_from_api
    \/ add_disfluency(MaxPosts)
    \/ AdvanceTime

Spec == Init /\ [][Next]_vars

\* The same handlers with fewer requests and a longer clock.
NextSession ==
    \/ open_camera
    \/ _on_timer_frame
    \/ start_speech
    \/ stop_speech
    \/ reset_speech
    \/ on_disfluency_from_api
    \/ add_disfluency(MaxPostsS)
    \/ AdvanceTimeS

SpecSession == Init /\ [][NextSession]_vars

\* The speech timer and the severity band, with the spin boxes in use.
NextTiming ==
    \/ open_camera
    \/ _on_timer_frame
    \/ start_speech
    \/ stop_speech
    \/ reset_speech
    \/ SetSpinMinutes
    \/ SetSpinSeconds
    \/ SetSpinWarn1
    \/ SetSpinWarn2
    \/ AdvanceTimeT

SpecTiming == Init /\ [][NextTiming]_vars

\* The expression pipeline with a working detector.
NextFer ==
    \/ open_camera
    \/ _on_timer_frame
    \/ _on_fer_toggled
    \/ AdvanceTimeF

SpecFer == InitFer /\ [][NextFer]_vars

\* The expression pipeline with a working detector during a speech session.
NextFerSession ==
    \/ open_camera
    \/ _on_timer_frame
    \/ start_speech
    \/ stop_speech
    \/ AdvanceTimeP

SpecFerSession == InitFer /\ [][NextFerSession]_vars

\* The severity band of a session that receives disfluency events, with
\* the upper threshold in use.
NextBand ==
    \/ open_camera
    \/ _on_timer_frame
    \/ start_speech
    \/ stop_speech
    \/ reset_speech
    \/ SetSpinWarn2
    \/ on_disfluency_from_api
    \/ add_disfluency(MaxPostsB)
    \/ AdvanceTimeB

SpecBand == Init /\ [][NextBand]_vars

\* Every operation of the window, with a working detector and one
\* disfluency event on its way; the clock stands at 0.
FrameA ==
    /\ _fer_i < MaxFramesA
    /\ _on_timer_frame

NextPresenter ==
    \/ open_camera
    \/ FrameA
    \/ start_speech
    \/ stop_speech
    \/ reset_speech
    \/ on_disfluency_from_api
    \/ generate_report

SpecPresenter == InitPresenter /\ [][NextPresenter]_vars

\* The report of a session: the target time in use, the clock running.
NextReport ==
    \/ open_camera
    \/ _on_timer_frame
    \/ start_speech
    \/ stop_speech
    \/ SetSpinMinutes
    \/ generate_report
    \/ AdvanceTimeR

SpecReport == Init /\ [][NextReport]_vars

\* The report of the emotion tally, with a working detector and a clock
\* that runs past the hold window.
NextFerReport ==
    \/ open_camera
    \/ _on_timer_frame
    \/ generate_report
    \/ AdvanceTimeE

SpecFerReport == InitFer /\ [][NextFerReport]_vars

\* The Ah-Counter client and the server it talks to, with the window that
\* receives the events and resets the counter.
NextClient ==
    \/ refresh_count
    \/ send_disfluency(MaxPostsC)
    \/ add_disfluency(MaxPostsC)
    \/ on_disfluency_from_api
    \/ reset_speech

SpecClient == Init /\ [][NextClient]_vars

\* Sessions that follow one another, with two disfluency events on their
\* way and reports generated in between.
NextTimeline ==
    \/ open_camera
    \/ _on_timer_frame
    \/ start_speech
    \/ stop_speech
    \/ reset_speech
    \/ on_disfluency_from_api
    \/ generate_report
    \/ AdvanceTimeD

SpecTimeline == InitTimeline /\ [][NextTimeline]_vars

\* The rate meter of the frame timer.
NextFps ==
    \/ open_camera
    \/ fps_tick
    \/ AdvanceTimeQ

SpecFps == Init /\ [][NextFps]_vars

\* The session and the POST handlers with the scheduling the program runs
\* under: a handler thread that has begun add_disfluency runs it to its
\* end, and the event loop of the GUI thread delivers every queued call.
\* Requests and button presses come when they come; the clock stands at 0.
NextLive ==
    \/ start_speech
    \/ stop_speech
    \/ reset_speech
    \/ on_disfluency_from_api
    \/ add_disfluency(MaxPostsL)

Fairness ==
    /\ WF_vars(on_disfluency_from_api)
    /\ \A r \in PostIds :
          WF_vars(\/ add_disfluency_store(r)
                  \/ add_disfluency_arg(r)
                  \/ add_disfluency_emit(r)
                  \/ add_disfluency_return(r))

SpecLive == Init /\ [][NextLive]_vars /\ Fairness

\* ------------------------------------------------------------------ claims
NoPostInFlight == \A r \in PostIds : posts[r].pc \in {"idle", "done"}

\* C1: after any sequence of start_speech, stop_speech and reset_speech
\* calls, with frame ticks and disfluency events in between, speech_running
\* is true exactly when a start was called and no stop or reset was called
\* after the most recent start.
C1_RunningIffStartOpen == speech_running = h_start_open

\* A running session begun after time 0, with an event recorded in it and
\* a tick after it.
C1_Witness ==
    /\ speech_running
    /\ h_start_open
    /\ speech_elapsed_sec > 0
    /\ disfluency_times # <<>>
    /\ speech_start_monotonic[1] > 0

\* C2: from a clean state, once the handlers of the N POST requests received
\* have all returned, the server's counter is N, whatever the interleaving
\* of the handler threads; a reset with no handler in flight makes the state
\* clean again, with the counter at 0.
C2_CountIsNumberOfPosts ==
    (NoPostInFlight /\ h_since_reset >= 0) => _DISFLUENCY_COUNT = h_since_reset

\* C3: the occurrence timeline never has more entries than the presenter's
\* disfluency count.
C3_TimelineWithinCount == Len(disfluency_times) <= disfluency_count

\* C10: reset_speech, from any state, leaves the session idle (not running,
\* no start instant, elapsed 0), the timeline empty and the presenter's and
\* the server's counts at 0.
C10_ResetZeroes ==
    [][reset_speech =>
          /\ ~speech_running'
          /\ speech_start_monotonic' = None
          /\ speech_elapsed_sec' = 0
          /\ disfluency_times' = <<>>
          /\ disfluency_count' = 0
          /\ _DISFLUENCY_COUNT' = 0]_vars

\* A POST was answered with count 1, and a later reset has put everything
\* back.
C10_Witness ==
    /\ response = <<1, 1>>
    /\ h_since_reset = 0
    /\ NoPostInFlight
    /\ queue = <<>>
    /\ now > 0
    /\ _DISFLUENCY_COUNT = 0
    /\ disfluency_count = 0
    /\ disfluency_times = <<>>
    /\ ~speech_running
    /\ speech_start_monotonic = None
    /\ speech_elapsed_sec = 0

\* C6: whenever the timing display is up to date, frac is elapsed / target
\* clamped to [0, 1.2] when the target is positive and 0 when the target
\* is 0, and the band is high (red) if frac >= warnHigh, otherwise medium
\* (yellow) if frac >= warnLow, otherwise low (green).
C6_FracAndBand ==
    h_ui_fresh =>
        LET e == speech_elapsed_sec
            t == TargetSeconds
            n == frac[1]
            d == frac[2]
        IN  /\ d > 0
            /\ t = 0 => n = 0
            /\ (t > 0 /\ 5 * e >= 6 * t) => 5 * n = 6 * d
            /\ (t > 0 /\ e <= 0) => n = 0
            /\ (t > 0 /\ e > 0 /\ 5 * e < 6 * t) => n * t = e * d
            /\ color = RED <=> 100 * n >= spin_warn2 * d
            /\ color = YELLOW <=>
                   (100 * n < spin_warn2 * d /\ 100 * n >= spin_warn1 * d)
            /\ color = GREEN <=>
                   (100 * n < spin_warn2 * d /\ 100 * n < spin_warn1 * d)

\* The display of a session that has run past 1.2 times a 1 s target.
C6_Witness ==
    /\ h_ui_fresh
    /\ TargetSeconds = 10
    /\ speech_elapsed_sec = 13
    /\ frac = <<6, 5>>
    /\ color = RED

Rank(c) == IF c = GREEN THEN 0 ELSE IF c = YELLOW THEN 1 ELSE 2

\* C7: between two ticks of one running session with the target and the
\* thresholds left alone, the band never goes down.
C7_BandNeverDecreases ==
    [][(speech_running /\ h_ui_fresh /\ speech_running' /\ h_ui_fresh')
           => Rank(color') >= Rank(color)]_vars

\* A running session with the default thresholds whose band has gone up to
\* high before the clamp.
C7_Witness ==
    /\ speech_running
    /\ h_ui_fresh
    /\ spin_warn1 = 75
    /\ spin_warn2 = 90
    /\ TargetSeconds = 10
    /\ speech_elapsed_sec = 9
    /\ color = RED

\* C8: a tick of a running session stores now - startInstant as the elapsed
\* time, whatever ticks came before, and changes neither speech_running nor
\* the start instant.
C8_TickElapsedExact ==
    [][(FrameTick /\ speech_running)
           => /\ speech_elapsed_sec' = now - speech_start_monotonic[1]
              /\ speech_running'
              /\ speech_start_monotonic' = speech_start_monotonic]_vars

\* A running session started after time 0 and ticked more than once.
C8_Witness ==
    /\ speech_running
    /\ h_ui_fresh
    /\ speech_start_monotonic[1] = 2
    /\ speech_elapsed_sec = 3
    /\ now = 5

\* C9: from a stop_speech called while running until the next start or
\* reset, the session is not running and the elapsed time stays at stop
\* time - startInstant, through every tick and however late.
C9_StopFreezesElapsed ==
    h_stop # None =>
        /\ ~speech_running
        /\ speech_start_monotonic # None
        /\ speech_elapsed_sec = h_stop[1] - speech_start_monotonic[1]

\* A stopped session, ticked again well after the stop.
C9_Witness ==
    /\ h_stop # None
    /\ h_stop[2]
    /\ now >= h_stop[1] + 3
    /\ speech_elapsed_sec = 2

C11_GuardedCallsAreNoOps ==
    [][((start_speech /\ speech_running) \/ (stop_speech /\ ~speech_running))
           => UNCHANGED <<speechVars, ledgerVars, _DISFLUENCY_COUNT>>]_vars

\* A session started at 0 with an occurrence at 0.1 s, ticked at 0.2 s, and
\* start_speech called again after that: nothing has moved.
C11_Witness ==
    /\ h_noop
    /\ speech_running
    /\ now = 2
    /\ speech_start_monotonic = <<0>>
    /\ speech_elapsed_sec = 2
    /\ disfluency_times = <<1>>
    /\ disfluency_count = 1

\* C12: the frame-index counter advances by one on every frame cycle,
\* whatever happens to detection in that cycle (skipped, nothing returned,
\* failed, recognition switched off), so that with stride 3 the detector is
\* invoked on frame cycles 3, 6, 9, ... and on no other.
C12_CounterAdvancesEveryCycle ==
    [][FrameTick => _fer_i' = _fer_i + 1]_vars

\* C13: a frame cycle in which the detector fails still runs its timing
\* tick, leaves speech_running, the start instant, the ledger, the emotion
\* tally, the held detection and the devices as they were, and advances the
\* frame counter; whatever failed before, a cycle invokes the detector
\* exactly when its counter is a multiple of the stride.
C13_FailureAbsorbed ==
    /\ [][(_fer_i' = _fer_i + 1 /\ h_cycle' = "raised")
             => /\ h_ui_fresh'
                /\ speech_running' = speech_running
                /\ speech_start_monotonic' = speech_start_monotonic
                /\ speech_elapsed_sec' =
                      IF speech_running
                      THEN now - speech_start_monotonic[1]
                      ELSE speech_elapsed_sec
                /\ UNCHANGED <<ledgerVars, emotion_counts,
                               emotion_samples_total, _last_box, _last_seen,
                               deviceVars>>]_vars
    /\ [][(_fer_i' = _fer_i + 1)
             => ((h_cycle' # "skip") <=> (_fer_i' % _fer_stride = 0))]_vars

\* The detector failed in cycle 3 of a running session; cycle 6 has invoked
\* it again and kept a region, and the tick of that cycle shows the elapsed
\* time.
C13_Witness ==
    /\ h_diag = <<0, 1>>
    /\ _fer_i = 6
    /\ h_cycle = "fresh"
    /\ emotion_samples_total = 1
    /\ speech_running
    /\ now = 1
    /\ speech_elapsed_sec = 1
    /\ h_ui_fresh

\* C14: a frame cycle whose detector call fails surfaces what a cycle with
\* an empty detection surfaces (the held detection while it is inside the
\* hold window, nothing otherwise), and tallies it the same way.
C14_FailureAsEmpty ==
    [][(_fer_i' = _fer_i + 1 /\ h_cycle' = "raised")
           => /\ results' = Surfaced(<<>>)
              /\ Tally(Surfaced(<<>>))]_vars

\* C15: the "FER error" message is shown at most once in any one wall-clock
\* second (and so at most once in any window of 2 seconds), however many
\* frame cycles fail in it.
C15_DiagnosticRateLimited == h_diag # None => h_diag[2] <= 1

\* C16: the count a POST /disfluency handler broadcasts, and the count it
\* returns, are the count its own increment produced (the count it read
\* plus 1), whatever other handlers and reset_speech do meanwhile.
C16_ResponseIsOwnIncrement ==
    [][\A r \in PostIds :
          /\ (posts[r].pc = "emit" /\ posts'[r].pc = "return")
                => queue'[Len(queue')] = posts[r].inc
          /\ (posts[r].pc = "return" /\ posts'[r].pc = "done")
                => response' = <<r, posts[r].inc>>]_vars

\* C17: a reset_speech that runs while POST handlers are in flight is
\* serialized with them: once they have all returned, the server's count is
\* at most the number of handlers that were in flight at the reset plus the
\* POSTs received after it (0 or 1 for one POST, never the count from
\* before the reset plus 1).
C17_ResetSerialized ==
    (NoPostInFlight /\ h_since_reset = -1) => _DISFLUENCY_COUNT <= h_after

\* C18: every POST handler that has incremented the server's count is
\* followed, sooner or later, by a call of on_disfluency_from_api that had
\* not happened yet when the increment was made.
C18_IncrementEventuallyDelivered ==
    \A r \in PostIds : \A d \in 0 .. MaxPosts :
        (posts[r].pc = "arg" /\ h_delivered = d) ~> (h_delivered > d)

\* The one request has been answered and its update delivered to the
\* window.
C18_Witness ==
    /\ posts[1].pc = "done"
    /\ response = <<1, 1>>
    /\ queue = <<>>
    /\ h_delivered = 1
    /\ disfluency_count = 1

\* C19: a delivery of a disfluency event sets the window's count to the
\* count delivered; while no session is running it leaves the timeline as
\* it is, and while one is running it appends exactly one entry, the
\* delivery time - startInstant.
C19_DeliveryEffect ==
    [][(h_delivered' = h_delivered + 1)
           => /\ disfluency_count' = Head(queue)
              /\ disfluency_times' =
                    IF speech_running
                    THEN Append(disfluency_times,
                                now - speech_start_monotonic[1])
                    ELSE disfluency_times]_vars

\* An event delivered to a session that had been started and stopped
\* before it: the count is 1 and the timeline is empty.
C19_Witness ==
    /\ ~speech_running
    /\ h_stop # None
    /\ h_stop[1] > speech_start_monotonic[1]
    /\ h_delivered = 1
    /\ disfluency_count = 1
    /\ disfluency_times = <<>>

\* C20: start_speech called while no session is running records now as
\* the start instant, sets speech_running and empties the timeline, and
\* leaves the window's count and the server's count as they were.
C20_StartKeepsCounts ==
    [][(~speech_running /\ h_start_open')
           => /\ speech_running'
              /\ speech_start_monotonic' = <<now>>
              /\ disfluency_times' = <<>>
              /\ UNCHANGED <<disfluency_count, _DISFLUENCY_COUNT>>]_vars

\* A session started at 0.2 s with the count of an event delivered before
\* that start.
C20_Witness ==
    /\ speech_running
    /\ speech_start_monotonic = <<2>>
    /\ disfluency_times = <<>>
    /\ h_delivered = 1
    /\ disfluency_count = 1
    /\ _DISFLUENCY_COUNT = 1

\* C21: whenever speech_running is true the start instant is set.
C21_RunningHasStartInstant ==
    speech_running => speech_start_monotonic # None

\* A session started at 0.2 s after a reset that followed an answered POST.
C21_Witness ==
    /\ speech_running
    /\ speech_start_monotonic = <<2>>
    /\ response = <<1, 1>>
    /\ h_since_reset = 0
    /\ _DISFLUENCY_COUNT = 0

\* The band as a function of the elapsed time, the target and the two
\* thresholds alone.
BandOf(e, t, w1, w2) ==
    LET n == IF t = 0 \/ e <= 0 THEN 0 ELSE IF 5 * e >= 6 * t THEN 6 ELSE e
        d == IF t = 0 \/ e <= 0 THEN 1 ELSE IF 5 * e >= 6 * t THEN 5 ELSE t
    IN  IF 100 * n >= w2 * d THEN RED
        ELSE IF 100 * n >= w1 * d THEN YELLOW
        ELSE GREEN

\* C22: disfluency events never affect the band.  No step of a POST
\* handler and no delivery changes the timing state, the target, the
\* thresholds or the band shown, and the band a tick shows is a function
\* of the clock, the timing state, the target and the thresholds only: two
\* runs that differ in their disfluency events alone show the same band at
\* every tick.
C22_BandIgnoresDisfluencies ==
    [][/\ (posts' # posts \/ h_delivered' # h_delivered)
             => UNCHANGED <<speechVars, spinVars, frac, color>>
       /\ FrameTick
             => color' = BandOf(IF speech_running
                                THEN now - speech_start_monotonic[1]
                                ELSE speech_elapsed_sec,
                                TargetSeconds, spin_warn1, spin_warn2)]_vars

\* A tick of a running session that holds one occurrence shows the low
\* band, as the session would without the occurrence.
C22_Witness ==
    /\ speech_running
    /\ h_ui_fresh
    /\ speech_elapsed_sec = 1
    /\ disfluency_count = 1
    /\ disfluency_times = <<0>>
    /\ spin_warn2 = 90
    /\ color = GREEN

\* C23: a pipeline cycle that surfaces a non-empty label-score mapping adds
\* 1 to the count of one label, the first in iteration order among those
\* with the maximal score, and 1 to total-samples; a cycle that surfaces an
\* empty mapping or nothing changes neither; no step adds more than 1 to
\* total-samples.
C23_TallyStep ==
    [][/\ (_fer_i' = _fer_i + 1) =>
             IF results' # <<>> /\ results'[1].emotions # <<>>
             THEN LET em == results'[1].emotions
                  IN  \E i \in 1 .. Len(em) :
                         /\ \A j \in 1 .. Len(em) : em[j][2] <= em[i][2]
                         /\ \A j \in 1 .. (i - 1) : em[j][2] < em[i][2]
                         /\ emotion_counts' =
                               [emotion_counts EXCEPT ![em[i][1]] = @ + 1]
                         /\ emotion_samples_total' = emotion_samples_total + 1
             ELSE UNCHANGED <<emotion_counts, emotion_samples_total>>
       /\ emotion_samples_total' <= emotion_samples_total + 1]_vars

\* Cycle 3 has surfaced a mapping in which two labels tie at the top score
\* and counted the first of them.
C23_Witness ==
    /\ _fer_i = 3
    /\ h_cycle = "fresh"
    /\ results # <<>>
    /\ results[1].emotions = << <<"sad", 50>>, <<"happy", 50>> >>
    /\ emotion_counts = [l \in Labels |-> IF l = "sad" THEN 1 ELSE 0]
    /\ emotion_samples_total = 1

\* C24: no step of the window (frame tick, start_speech, stop_speech,
\* reset_speech, disfluency event, report generation) decreases the count
\* of a label or total-samples, and reset_speech changes neither.
C24_TallyNeverDecreases ==
    [][/\ \A l \in Labels : emotion_counts'[l] >= emotion_counts[l]
       /\ emotion_samples_total' >= emotion_samples_total
       /\ reset_speech
             => UNCHANGED <<emotion_counts, emotion_samples_total>>]_vars

\* A sample was counted and the disfluency event delivered, a report was
\* generated that shows both, and reset_speech ran after it: the session
\* is cleared, the sample is still counted.
C24_Witness ==
    /\ emotion_samples_total = 1
    /\ emotion_counts["happy"] = 1
    /\ text_report # None
    /\ text_report[1].total_disfluencies = 1
    /\ text_report[1].emo_summary = << <<"happy", 1, 1000>> >>
    /\ h_delivered = 1
    /\ disfluency_count = 0
    /\ _DISFLUENCY_COUNT = 0
    /\ ~speech_running
    /\ h_stop = None

\* C25: when the detector returns several regions with a box in one cycle,
\* the region handed to the stabilizer, which becomes _last_box and is
\* surfaced, has the largest area width * height of the remapped regions,
\* and no region before it in the detector's order has that area.
C25_LargestFirstRegion ==
    [][\A out \in DetectorOutputs, w_img \in FrameWidths :
          LET m == Mapped(out.raw, w_img)
          IN  (FerRun(out, w_img) /\ h_cycle' = "fresh" /\ Len(m) >= 2)
                 => \E i \in 1 .. Len(m) :
                       /\ _last_box' = <<m[i]>>
                       /\ results' = <<m[i]>>
                       /\ \A j \in 1 .. Len(m) :
                             m[j].box[3] * m[j].box[4]
                                <= m[i].box[3] * m[i].box[4]
                       /\ \A j \in 1 .. (i - 1) :
                             m[j].box[3] * m[j].box[4]
                                < m[i].box[3] * m[i].box[4]]_vars

\* The detector returned two regions of equal area, (40, 20, 100, 60) without
\* emotions before (10, 10, 60, 100) with emotions, in a frame 1920 wide:
\* the first is surfaced.
C25_Witness ==
    /\ h_cycle = "fresh"
    /\ h_tie
    /\ results = <<[box |-> <<160, 80, 400, 240>>, emotions |-> <<>>]>>
    /\ _last_box = results
    /\ _fer_i = 3

\* C26: each component (x, y, width, height) of a region found in the
\* downscaled image is remapped to v / scale truncated to an integer, with
\* scale = 480 / source width: the integer t with t <= v * width / 480 <
\* t + 1.  In a frame 1920 wide (scale 0.25) the region (40, 20, 100, 60)
\* is remapped to (160, 80, 400, 240).
C26_RemapTruncates ==
    [][\A out \in DetectorOutputs, w_img \in FrameWidths :
          (FerRun(out, w_img) /\ h_cycle' = "fresh")
             => /\ \E r \in 1 .. Len(out.raw) :
                      /\ out.raw[r].box # None
                      /\ \A k \in 1 .. 4 :
                            LET v == out.raw[r].box[1][k]
                                t == results'[1].box[k]
                            IN  /\ t * 480 <= v * w_img
                                /\ v * w_img < (t + 1) * 480
                /\ (/\ w_img = 1920
                    /\ Len(out.raw) = 1
                    /\ out.raw[1].box = << <<40, 20, 100, 60>> >>)
                      => results'[1].box = <<160, 80, 400, 240>>]_vars

\* The detector found the one region (40, 20, 100, 60) in the downscaled
\* image of a frame 1920 wide, and the pipeline surfaced it remapped.
C26_Witness ==
    /\ h_cycle = "fresh"
    /\ ~h_tie
    /\ _fer_i = 3
    /\ results = <<[box |-> <<160, 80, 400, 240>>,
                    emotions |-> << <<"happy", 90>>, <<"sad", 10>> >>]>>
    /\ emotion_samples_total = 1

\* C27: a report that is generated reads "Over time by d" with d = elapsed -
\* target when the elapsed time exceeds the target and "Under time by d"
\* with d = target - elapsed otherwise, d in tenths of a second as {:.1f}
\* prints it; the elapsed time is now - start instant while the session
\* runs and the stored elapsed time otherwise.  With the target at 300 s,
\* 330 s reads over by 30.0 s and 270 s reads under by 30.0 s.
C27_ReportTiming ==
    [][/\ text_report' # text_report =>
             LET e == IF speech_running
                      THEN now - speech_start_monotonic[1]
                      ELSE speech_elapsed_sec
                 t == (spin_minutes * 60 + spin_seconds) * 10
                 r == text_report'[1].timing_result
             IN  IF e > t
                 THEN r = <<"Over time by", e - t>>
                 ELSE r = <<"Under time by", t - e>>
       /\ TimingResult(3300, 3000) = <<"Over time by", 300>>
       /\ TimingResult(2700, 3000) = <<"Under time by", 300>>]_vars

\* The target is 0 s and the session has run for 0.2 s with no tick since
\* its start: the report reads over time by 0.2 s.
C27_Witness ==
    /\ speech_running
    /\ speech_start_monotonic = <<0>>
    /\ now = 2
    /\ speech_elapsed_sec = 0
    /\ spin_minutes = 0
    /\ text_report # None
    /\ text_report[1].timing_result = <<"Over time by", 2>>
    /\ text_report[1].actual = 2

\* C28: a report generated with total-samples 0 holds the line that says
\* that no sample was collected; with total-samples positive it holds one
\* line for every counted label, with its count, in descending order of
\* count, and with the percentage 100 * count / total-samples to the
\* nearest tenth.
C28_ReportTally ==
    [][text_report' # text_report =>
          LET s == text_report'[1].emo_summary
              n == emotion_samples_total
          IN  IF n = 0
              THEN s = << <<"No emotion samples collected.">> >>
              ELSE /\ {s[i][1] : i \in 1 .. Len(s)}
                         = {l \in Labels : emotion_counts[l] > 0}
                   /\ Len(s) = Cardinality({l \in Labels : emotion_counts[l] > 0})
                   /\ \A i \in 1 .. Len(s) :
                         /\ Len(s[i]) = 3
                         /\ s[i][2] = emotion_counts[s[i][1]]
                         /\ 2 * (1000 * s[i][2] - s[i][3] * n) <= n
                         /\ 2 * (s[i][3] * n - 1000 * s[i][2]) <= n
                   /\ \A i, j \in 1 .. Len(s) : i < j => s[i][2] >= s[j][2]]_vars

\* "happy" was counted first, once, and "sad" twice after the hold window
\* had run out: the report lists sad with 66.7 % before happy with 33.3 %.
C28_Witness ==
    /\ emotion_keys = <<"happy", "sad">>
    /\ emotion_samples_total = 3
    /\ text_report # None
    /\ text_report[1].emo_summary = << <<"sad", 2, 667>>, <<"happy", 1, 333>> >>

\* C29: a send_disfluency of the client whose POST fails or times out
\* leaves the count the label shows as it is and ends with no GET; the
\* label changes only in a step that ends a GET exchange of the client, and
\* then shows the count that GET carried, or the dash when it failed.
C29_ClientShowsOnlyGetValues ==
    [][/\ (h_post' = "failed" /\ h_post # "failed")
             => /\ UNCHANGED <<lbl_count, h_get>>
                /\ client'.pc = "idle"
       /\ lbl_count' # lbl_count => h_get'[1] # h_get[1]
       /\ h_get' # h_get => lbl_count' = h_get'[2]]_vars

\* The client showed 0 after its first GET; its POST timed out although the
\* server handled it to the end and counted it: the label still shows 0.
C29_Witness ==
    /\ h_post = "failed"
    /\ client.pc = "idle"
    /\ lbl_count = <<0>>
    /\ h_get = <<1, <<0>>>>
    /\ _DISFLUENCY_COUNT = 1
    /\ posts[1].pc = "done"
    /\ received = 1

\* C30: the rate meter holds at most 60 timestamps; a run of the meter
\* leaves it with the most recent 60 of the timestamps held before and the
\* new one; the rate it shows is 0 when it holds fewer than 2 timestamps or
\* newest - oldest is not positive, and (held count - 1) / (newest -
\* oldest) otherwise.
C30_RateMeter ==
    [][/\ Len(frame_times') <= 60
       /\ h_tick' # h_tick =>
             LET all == Append(frame_times, now)
                 n == Len(all)
                 k == Len(frame_times')
                 span == frame_times'[k] - frame_times'[1]
             IN  /\ frame_times' =
                       IF n > 60 THEN SubSeq(all, n - 59, n) ELSE all
                 /\ IF k < 2 \/ span <= 0
                    THEN fps' = <<0, 1>>
                    ELSE /\ fps'[2] > 0
                         /\ fps'[1] * span = 10 * (k - 1) * fps'[2]]_vars

\* The meter is full, its oldest timestamp pushed out by a later one: it
\* holds 60 timestamps from 0.0 s to 0.1 s and shows 59 / 0.1 per second.
C30_Witness ==
    /\ h_evicted
    /\ Len(frame_times) = 60
    /\ frame_times[1] = 0
    /\ frame_times[2] = 1
    /\ frame_times[60] = 1
    /\ fps = <<590, 1>>

\* C31: a GET /disfluency that is answered carries the count the server
\* holds, and leaves the server's count, the window's count and timeline
\* and the calls queued to the window as they are.
C31_GetIsReadOnly ==
    [][(h_get'[1] # h_get[1] /\ h_get'[2] # None)
          => /\ h_get'[2] = <<_DISFLUENCY_COUNT>>
             /\ UNCHANGED <<_DISFLUENCY_COUNT, disfluency_count,
                            disfluency_times, queue, h_delivered>>]_vars

\* The client's GET was answered with 1 while the call emitted by the POST
\* was still queued to the window, which shows 0.
C31_Witness ==
    /\ h_get[2] = <<1>>
    /\ lbl_count = <<1>>
    /\ _DISFLUENCY_COUNT = 1
    /\ queue = <<1>>
    /\ disfluency_count = 0
    /\ h_delivered = 0
    /\ h_post = "ok"

\* C32: whenever no POST handler is in progress and no call is queued to
\* the window, the window's disfluency_count equals the server's
\* _DISFLUENCY_COUNT.
C32_CountsAgreeWhenQuiet ==
    (NoPostInFlight /\ queue = <<>>) => disfluency_count = _DISFLUENCY_COUNT

\* C33: the occurrence timeline is in non-decreasing order, its entries
\* are >= 0, and none exceeds the elapsed time of the session: now - start
\* instant while it runs, the frozen elapsed time once it is stopped.
C33_TimelineWithinSession ==
    LET n == Len(disfluency_times)
        elapsed == IF speech_running
                   THEN now - speech_start_monotonic[1]
                   ELSE speech_elapsed_sec
    IN  /\ \A i \in 1 .. n :
              /\ disfluency_times[i] >= 0
              /\ disfluency_times[i] <= elapsed
        /\ \A i, j \in 1 .. n :
              i < j => disfluency_times[i] <= disfluency_times[j]

\* A session started at 0.1 s took the two events 0.0 s and 0.1 s after its
\* start and was stopped at 0.2 s, with 0.1 s elapsed.
C33_Witness ==
    /\ ~speech_running
    /\ speech_start_monotonic = <<1>>
    /\ speech_elapsed_sec = 1
    /\ disfluency_times = <<0, 1>>
    /\ disfluency_count = 2
    /\ now = 2

\* C34: a start_speech that takes effect, also after a stop_speech, sets
\* the elapsed time to 0 and the start instant to now; while the session
\* runs the elapsed time never exceeds now - start instant, and every new
\* value it takes is now - start instant: the frozen elapsed time of the
\* session before is never added.
C34_RestartMeasuresAfresh ==
    [][/\ (~speech_running /\ speech_running')
             => /\ speech_elapsed_sec' = 0
                /\ speech_start_monotonic' = <<now>>
       /\ speech_running'
             => speech_elapsed_sec' <= now' - speech_start_monotonic'[1]
       /\ (speech_running /\ speech_running'
              /\ speech_elapsed_sec' # speech_elapsed_sec)
             => speech_elapsed_sec' = now - speech_start_monotonic[1]]_vars

\* A session took both events and was stopped with 0.1 s elapsed, and a
\* report was generated; the session started after it at 0.1 s has run to
\* 0.2 s and its tick shows 0.1 s.
C34_Witness ==
    /\ speech_running
    /\ speech_start_monotonic = <<1>>
    /\ now = 2
    /\ speech_elapsed_sec = 1
    /\ h_ui_fresh
    /\ disfluency_times = <<>>
    /\ disfluency_count = 2
    /\ h_delivered = 2
    /\ text_report # None
    /\ text_report[1].times = <<0, 1>>
    /\ text_report[1].actual = 1

RECURSIVE SumCounts(_, _)
SumCounts(counts, S) ==
    IF S = {} THEN 0
    ELSE LET l == CHOOSE x \in S : TRUE
         IN  counts[l] + SumCounts(counts, S \ {l})

\* C5: emotion_samples_total is always the sum of the per-label counts.
C5_TotalIsSumOfCounts ==
    emotion_samples_total = SumCounts(emotion_counts, Labels)

\* Both labels counted: one over the cycle that accepted a detection and
\* the two skipped cycles that served it, the other by the next detection.
C5_Witness ==
    /\ emotion_counts["happy"] = 3
    /\ emotion_counts["sad"] = 1
    /\ emotion_samples_total = 4
    /\ _fer_i = 6

====
